---- MODULE Spec2Model ----
(***************************************************************************)
(* A model of noise-rs's permutation table (src/permutationtable.rs):      *)
(* construction from a u32 seed or from a caller-supplied RNG, the         *)
(* multi-axis hash, and the serde codec.                                   *)
(*                                                                         *)
(* The shuffle and the generators are those of the crates the file calls   *)
(* (rand 0.8: SliceRandom::shuffle, gen_index, UniformInt::sample_single;  *)
(* rand_xorshift 0.3: XorShiftRng), followed draw by draw.                 *)
(*                                                                         *)
(* TLC's integers are 32-bit signed, so a u32 is kept as a record          *)
(* [hi, lo] of two 16-bit halves and all u32 arithmetic is done on the     *)
(* halves.  A table is a function 0..255 -> 0..255, indexed as in the code.*)
(***************************************************************************)
EXTENDS Integers, Sequences, FiniteSets, TLC

VARIABLES
    \* ---- construction (PermutationTable::new, Standard::sample) ----
    pc,         \* position of the construction call: "idle", "shuffle", "done"
    seed,       \* the u32 argument of the running/last new() call, or None
    real,       \* new()'s 16-byte expansion buffer, or <<>> for sample()
    rng,        \* state of the RNG driving the shuffle
    values,     \* perm_table.values of the table under construction
    i,          \* the shuffle's loop index (counts down from 255 to 1)
    first,      \* what the first completed new() call was given and returned, or None
    again,      \* whether the running/last call is a new() begun after `first` was recorded
    \* ---- serde codec ----
    spc,        \* position of the codec: "idle", "ser", "wire", "de", "done"
    input,      \* the whole sequence handed to the deserializer
    table,      \* the table being serialized, or None
    len_hint,   \* the length passed to serialize_seq, or None
    seq,        \* serializer: elements emitted; deserializer: elements not yet read
    ser_i,      \* number of elements the serializer has emitted
    de_i,       \* visit_seq's loop index i
    new_obj,    \* visit_seq's table under construction
    de_result,  \* result of Deserialize::deserialize, or None
    \* ---- hashing ----
    shared,     \* the table the hash calls read (&self)
    to_hash,    \* per thread: the coordinate slice passed to hash
    hpc,        \* per thread: "idle", "reduce", "done"
    pos,        \* per thread: number of coordinates the iterator has yielded
    acc,        \* per thread: the reduce accumulator
    hresult     \* per thread: the value hash returned, Panic, or None

vars == <<pc, seed, real, rng, values, i, first, again,
          spc, input, table, len_hint, seq, ser_i, de_i, new_obj, de_result,
          shared, to_hash, hpc, pos, acc, hresult>>

buildVars == <<pc, seed, real, rng, values, i, first, again>>
serdeVars == <<spc, input, table, len_hint, seq, ser_i, de_i, new_obj, de_result>>
hashVars  == <<shared, to_hash, hpc, pos, acc, hresult>>

\* Option<T>: None is the empty sequence, Some(x) the one-element sequence.
None == <<>>
Some(x) == <<x>>

\* const TABLE_SIZE: usize = 256;
TABLE_SIZE == 256

(***************************************************************************)
(* Bit arithmetic                                                          *)
(***************************************************************************)
RECURSIVE Pow2(_)
Pow2(k) == IF k = 0 THEN 1 ELSE 2 * Pow2(k - 1)

\* a ^ b on non-negative integers.
RECURSIVE BitXor(_, _)
BitXor(a, b) ==
    IF a = 0 THEN b
    ELSE IF b = 0 THEN a
    ELSE (((a % 2) + (b % 2)) % 2) + 2 * BitXor(a \div 2, b \div 2)

\* a & b for a two's-complement integer a of any sign and a mask b >= 0:
\* bit k of a is floor(a / 2^k) mod 2, whatever the width of a.
RECURSIVE BitAnd(_, _)
BitAnd(a, b) ==
    IF b = 0 THEN 0
    ELSE ((a % 2) * (b % 2)) + 2 * BitAnd(a \div 2, b \div 2)

(***************************************************************************)
(* u32 values as two 16-bit halves                                         *)
(***************************************************************************)
Half == Pow2(16)

U32(h, l) == [hi |-> h, lo |-> l]

Xor32(a, b) == U32(BitXor(a.hi, b.hi), BitXor(a.lo, b.lo))

\* a << n, 0 <= n < 32, bits shifted out are lost.
Shl32(a, n) ==
    IF n < 16
    THEN U32(((a.hi * Pow2(n)) + ((a.lo * Pow2(n)) \div Half)) % Half,
             (a.lo * Pow2(n)) % Half)
    ELSE U32((a.lo * Pow2(n - 16)) % Half, 0)

\* a >> n, 0 <= n < 32 (logical shift).
Shr32(a, n) ==
    IF n < 16
    THEN U32(a.hi \div Pow2(n),
             ((a.hi % Pow2(n)) * Pow2(16 - n)) + (a.lo \div Pow2(n)))
    ELSE U32(0, a.hi \div Pow2(n - 16))

\* a.wrapping_add(b)
Add32(a, b) ==
    U32((a.hi + b.hi + ((a.lo + b.lo) \div Half)) % Half, (a.lo + b.lo) % Half)

\* a.wrapping_sub(1)
Sub1(a) ==
    IF a.lo > 0 THEN U32(a.hi, a.lo - 1)
    ELSE IF a.hi > 0 THEN U32(a.hi - 1, Half - 1)
    ELSE U32(Half - 1, Half - 1)

Leq32(a, b) == a.hi < b.hi \/ (a.hi = b.hi /\ a.lo <= b.lo)

\* n.leading_zeros() for a u32 n with 0 < n < 2^16
RECURSIVE BitLen(_)
BitLen(n) == IF n = 0 THEN 0 ELSE 1 + BitLen(n \div 2)
LeadingZeros(n) == 32 - BitLen(n)

\* v.wmul(range): the 64-bit product of two u32 as (hi, lo) words, for a
\* range below 2^15 (the shuffle's ranges are 2..256).
Wmul(v, range) ==
    LET pl == v.lo * range
        ph == (v.hi * range) + (pl \div Half)
    IN  [hi |-> U32(0, ph \div Half), lo |-> U32(ph % Half, pl % Half)]

\* `x as u8` on a u32
LowByte32(a) == a.lo % 256

(***************************************************************************)
(* The random number generators                                            *)
(***************************************************************************)
\* le::read_u32_into: the little-endian u32 at bytes 4k..4k+3 of a buffer
\* (the buffer is a 1-indexed sequence, so byte n is buf[n+1]).
ReadU32LE(buf, k) ==
    U32((buf[4 * k + 4] * 256) + buf[4 * k + 3],
        (buf[4 * k + 2] * 256) + buf[4 * k + 1])

Zero32 == U32(0, 0)

\* XorShiftRng::from_seed: four little-endian words; an all-zero seed is
\* replaced by 0x0BAD_5EED four times.
XorShiftFromSeed(buf) ==
    LET w == [k \in 1..4 |-> ReadU32LE(buf, k - 1)]
        bad == U32(2989, 24301)
    IN  [kind |-> "xorshift",
         s |-> IF \A k \in 1..4 : w[k] = Zero32 THEN <<bad, bad, bad, bad>> ELSE w]

\* StepRng { v, a }: the mock generator of the rand crate, a caller-supplied
\* RNG; next_u32 is the low word of v, and v advances by a.
StepRng(v, a) == [kind |-> "step", s |-> <<v, a>>]

\* RngCore::next_u32: the word drawn and the generator's next state.
NextU32(r) ==
    IF r.kind = "xorshift"
    THEN LET x == r.s[1]
             t == Xor32(x, Shl32(x, 11))
             w_ == r.s[4]
             w == Xor32(Xor32(w_, Shr32(w_, 19)), Xor32(t, Shr32(t, 8)))
         IN  [word |-> w, rng |-> [r EXCEPT !.s = <<r.s[2], r.s[3], r.s[4], w>>]]
    ELSE [word |-> r.s[1],
          rng |-> [r EXCEPT !.s = <<Add32(r.s[1], r.s[2]), r.s[2]>>]]

(***************************************************************************)
(* Construction: PermutationTable::new and Distribution::sample            *)
(***************************************************************************)
\* `(seed >> (8 * k)) as u8`
SeedByte(s, k) == LowByte32(Shr32(s, 8 * k))

\* new(): the 16-byte buffer `real` (1-indexed here: real[n + 1] is the
\* code's real[n]).  real[0] = 1, real[1..3] stay 0, and each block
\* i = 1, 2, 3 holds the seed's four bytes, low byte first.
NewReal(s) ==
    [n \in 1..16 |->
        IF n = 1 THEN 1
        ELSE IF n <= 4 THEN 0
        ELSE SeedByte(s, (n - 1) % 4)]

\* Mutant: the fill `*b = i as u8` is left out and the zeroed array is shuffled.
IdentityNotFilled == [k \in 0..(TABLE_SIZE - 1) |-> 0]

\* sample(): values[i] = i as u8 for every i.
Identity == [k \in 0..(TABLE_SIZE - 1) |-> k % 256]

\* slice.swap(a, b)
Swap(v, a, b) == [v EXCEPT ![a] = v[b], ![b] = v[a]]

\* One draw of gen_index(rng, ubound) = rng.gen_range(0..ubound as u32):
\* UniformInt::sample_single's loop body.  The draw is accepted when the low
\* word of v * range is within the zone, and the index is then the high word.
Draw(r, ubound) ==
    LET range == U32(0, ubound)
        zone == Sub1(Shl32(range, LeadingZeros(ubound)))
        d == NextU32(r)
        m == Wmul(d.word, ubound)
    IN  [accepted |-> Leq32(m.lo, zone), index |-> m.hi.lo, rng |-> d.rng]

\* One draw of the shuffle `for i in (1..len).rev() { swap(i, gen_index(rng, i + 1)) }`
\* on st = [values, i, rng]: a rejected draw only advances the generator.
ShuffleStep(st) ==
    LET d == Draw(st.rng, st.i + 1)
    IN  IF d.accepted
        THEN [values |-> Swap(st.values, st.i, d.index), i |-> st.i - 1, rng |-> d.rng]
        ELSE [st EXCEPT !.rng = d.rng]

\* The state sample() starts the shuffle in.
SampleStart(r) == [values |-> Identity, i |-> TABLE_SIZE - 1, rng |-> r]

\* gen_index's loop for one iteration of the shuffle: draws until one is
\* accepted, then swaps.
RECURSIVE ShuffleIter(_)
ShuffleRetry(st, nx) == IF nx.i < st.i THEN nx ELSE ShuffleIter(nx)
ShuffleIter(st) == ShuffleRetry(st, ShuffleStep(st))

\* n consecutive iterations of the shuffle's for loop.  The run is split in
\* halves, and the first half is evaluated (the test on mid.i always holds)
\* before the second starts, which keeps TLC's evaluation shallow.
RECURSIVE ShuffleIters(_, _)
ShuffleThen(mid, n) == IF mid.i >= 0 THEN ShuffleIters(mid, n) ELSE mid
ShuffleIters(st, n) ==
    IF n = 0 THEN st
    ELSE IF n = 1 THEN ShuffleIter(st)
    ELSE ShuffleThen(ShuffleIters(st, n \div 2), n - (n \div 2))

\* The whole of sample(rng): the table it returns.
sample(r) == ShuffleIters(SampleStart(r), TABLE_SIZE - 1).values

\* The whole of PermutationTable::new(seed).
new(s) == sample(XorShiftFromSeed(NewReal(s)))

\* ---- inputs ----
MaxSeeds == 3
MaxRngs == 2

SeedSamples ==
    << U32(0, 0), U32(258, 772), U32(65535, 65535),
       U32(40503, 31161), U32(0, 1), U32(32768, 0) >>
Seeds == {SeedSamples[k] : k \in 1..(IF MaxSeeds < 6 THEN MaxSeeds ELSE 6)}

RngSamples ==
    << StepRng(U32(0, 0), U32(0, 0)),
       StepRng(U32(4660, 22136), U32(40503, 31161)),
       StepRng(U32(65535, 65535), U32(34283, 51819)),
       XorShiftFromSeed([n \in 1..16 |-> 0]) >>
Rngs == {RngSamples[k] : k \in 1..(IF MaxRngs < 4 THEN MaxRngs ELSE 4)}

NoRng == [kind |-> "none", s |-> <<>>]

\* ---- actions ----
Start(r) ==
    /\ pc \in {"idle", "done"}
    /\ LET st == SampleStart(r)
       IN  /\ values' = st.values
           /\ i' = st.i
           /\ rng' = st.rng
    /\ pc' = "shuffle"

\* Mutant: new() keeps drawing from a generator that outlives the call
\* instead of seeding a fresh one from the buffer.
NewSharedRng(s) ==
    /\ seed' = Some(s)
    /\ real' = NewReal(s)
    /\ Start(IF rng.kind = "xorshift" THEN rng ELSE XorShiftFromSeed(NewReal(s)))
    /\ again' = (first # None)
    /\ UNCHANGED first

\* PermutationTable::new(s) up to the start of the shuffle.
New(s) ==
    /\ seed' = Some(s)
    /\ real' = NewReal(s)
    /\ Start(XorShiftFromSeed(NewReal(s)))
    /\ again' = (first # None)
    /\ UNCHANGED first

\* Standard.sample(rng) with a caller-supplied generator, up to the shuffle.
Sample(r) ==
    /\ seed' = None
    /\ real' = <<>>
    /\ Start(r)
    /\ again' = FALSE
    /\ UNCHANGED first

\* One draw of the shuffle; after the swap at i = 1 the table is returned.
ShuffleDraw ==
    /\ pc = "shuffle"
    /\ LET st == ShuffleStep([values |-> values, i |-> i, rng |-> rng])
       IN  /\ values' = st.values
           /\ i' = st.i
           /\ rng' = st.rng
           /\ pc' = IF st.i < 1 THEN "done" ELSE "shuffle"
           /\ first' = IF st.i < 1 /\ seed # None /\ first = None
                       THEN Some([seed |-> seed[1], real |-> real, values |-> st.values])
                       ELSE first
    /\ UNCHANGED <<seed, real, again>>

BuildIdle ==
    /\ pc = "idle" /\ seed = None /\ real = <<>> /\ rng = NoRng
    /\ values = None /\ i = 0 /\ first = None /\ again = FALSE
SerdeIdle ==
    /\ spc = "idle" /\ input = <<>> /\ table = None /\ len_hint = None /\ seq = <<>>
    /\ ser_i = 0 /\ de_i = 0 /\ new_obj = None /\ de_result = None
HashIdle ==
    /\ shared = None /\ to_hash = <<>> /\ hpc = <<>> /\ pos = <<>>
    /\ acc = <<>> /\ hresult = <<>>


InitBuild == BuildIdle /\ SerdeIdle /\ HashIdle
NextBuild ==
    \/ \E s \in Seeds : New(s) /\ UNCHANGED <<serdeVars, hashVars>>
    \/ \E r \in Rngs : Sample(r) /\ UNCHANGED <<serdeVars, hashVars>>
    \/ ShuffleDraw /\ UNCHANGED <<serdeVars, hashVars>>
SpecBuild == InitBuild /\ [][NextBuild]_vars

(***************************************************************************)
(* The serde codec                                                         *)
(***************************************************************************)
\* The tables the constructors return for the sampled seeds and generators.
BuiltTables == {new(s) : s \in Seeds} \cup {sample(r) : r \in Rngs}

\* The decimal digits `{}` formats an unsigned integer with.
RECURSIVE Decimal(_)
Decimal(n) == IF n < 10 THEN <<n>> ELSE Append(Decimal(n \div 10), n % 10)

\* Mutant: the two arguments of format! are swapped.
CountMessageSwapped(found) ==
    [origin |-> "visitor",
     text |-> <<"PermutationTable must have exactly ", " elements, found ">>,
     args |-> <<Decimal(found), Decimal(TABLE_SIZE)>>]

\* format!("PermutationTable must have exactly {} elements, found {}", TABLE_SIZE, i)
CountMessage(found) ==
    [origin |-> "visitor",
     text |-> <<"PermutationTable must have exactly ", " elements, found ">>,
     args |-> <<Decimal(TABLE_SIZE), Decimal(found)>>]

\* The error of a data format that refuses elements its visitor left unread
\* (its wording is the format's own).
TrailingError == [origin |-> "format", text |-> <<"trailing elements">>, args |-> <<>>]

Ok(t) == [tag |-> "Ok", values |-> Some(t), error |-> None]
Err(e) == [tag |-> "Err", values |-> None, error |-> Some(e)]

\* serialize: serializer.serialize_seq(Some(TABLE_SIZE))
SerializeBegin(t) ==
    /\ spc = "idle"
    /\ table' = Some(t)
    /\ len_hint' = Some(TABLE_SIZE)
    /\ seq' = <<>>
    /\ ser_i' = 0
    /\ spc' = "ser"
    /\ UNCHANGED <<input, de_i, new_obj, de_result>>

\* Mutant: the values are emitted from the last to the first.
SerializeElementReversed ==
    /\ spc = "ser"
    /\ ser_i < TABLE_SIZE
    /\ seq' = Append(seq, table[1][(TABLE_SIZE - 1) - ser_i])
    /\ ser_i' = ser_i + 1
    /\ spc' = IF ser_i + 1 = TABLE_SIZE THEN "wire" ELSE "ser"
    /\ UNCHANGED <<input, table, len_hint, de_i, new_obj, de_result>>

\* serialize: one `seq.serialize_element(&value)` of `for value in self.values`;
\* after the last element, seq.end().
SerializeElement ==
    /\ spc = "ser"
    /\ ser_i < TABLE_SIZE
    /\ seq' = Append(seq, table[1][ser_i])
    /\ ser_i' = ser_i + 1
    /\ spc' = IF ser_i + 1 = TABLE_SIZE THEN "wire" ELSE "ser"
    /\ UNCHANGED <<input, table, len_hint, de_i, new_obj, de_result>>

\* deserialize -> deserialize_seq -> visit_seq, up to its loop:
\* new_obj = PermutationTable { values: [0; TABLE_SIZE] }.
VisitBegin(elems) ==
    /\ input' = elems
    /\ seq' = elems
    /\ new_obj' = Some([k \in 0..(TABLE_SIZE - 1) |-> 0])
    /\ de_i' = 0
    /\ spc' = "de"
    /\ UNCHANGED <<table, len_hint, ser_i, de_result>>

\* Deserializing a sequence that comes from anywhere.
DeserializeBegin(elems) == spc = "idle" /\ VisitBegin(elems)

\* Deserializing what serialize emitted.
DeserializeWire == spc = "wire" /\ VisitBegin(seq)

\* Mutant: visit_seq refuses an element it has already stored (a duplicate
\* check).
VisitNextChecked ==
    /\ spc = "de"
    /\ de_i < TABLE_SIZE
    /\ IF seq # <<>> /\ \A k \in 0..(de_i - 1) : new_obj[1][k] # Head(seq)
       THEN /\ new_obj' = Some([new_obj[1] EXCEPT ![de_i] = Head(seq)])
            /\ seq' = Tail(seq)
            /\ de_i' = de_i + 1
            /\ UNCHANGED <<spc, de_result>>
       ELSE /\ de_result' = Some(Err(CountMessage(de_i)))
            /\ spc' = "done"
            /\ UNCHANGED <<new_obj, seq, de_i>>
    /\ UNCHANGED <<input, table, len_hint, ser_i>>

\* One iteration of `for i in 0..TABLE_SIZE`: seq.next_element() yields the
\* next element, which is stored at i, or None, and visit_seq returns the error.
VisitNext ==
    /\ spc = "de"
    /\ de_i < TABLE_SIZE
    /\ IF seq # <<>>
       THEN /\ new_obj' = Some([new_obj[1] EXCEPT ![de_i] = Head(seq)])
            /\ seq' = Tail(seq)
            /\ de_i' = de_i + 1
            /\ UNCHANGED <<spc, de_result>>
       ELSE /\ de_result' = Some(Err(CountMessage(de_i)))
            /\ spc' = "done"
            /\ UNCHANGED <<new_obj, seq, de_i>>
    /\ UNCHANGED <<input, table, len_hint, ser_i>>

\* After the loop visit_seq returns Ok(new_obj) without asking for a further
\* element; deserialize returns what deserialize_seq makes of it.  The data
\* format D is the caller's: it hands the visitor's value through, or, when
\* elements are left unread and it checks for that, fails with its own error.
VisitReturn(strict_end) ==
    /\ spc = "de"
    /\ de_i = TABLE_SIZE
    /\ de_result' = Some(IF strict_end /\ seq # <<>>
                         THEN Err(TrailingError)
                         ELSE Ok(new_obj[1]))
    /\ spc' = "done"
    /\ UNCHANGED <<input, table, len_hint, seq, ser_i, de_i, new_obj>>

\* ---- inputs ----
MaxExtra == 1
MaxPattern == 2

\* Element k (from 0) of the input sequence of pattern p: p = 1 counts up
\* (a permutation when 256 long), even p repeat values.
PatternElem(p, k) == ((p * k) + (p - 1)) % 256
WireInputs ==
    {[k \in 1..n |-> PatternElem(p, k - 1)] :
        n \in 0..(TABLE_SIZE + MaxExtra), p \in 1..MaxPattern}

InitSerde == BuildIdle /\ SerdeIdle /\ HashIdle
NextSerde ==
    \/ \E t \in BuiltTables : SerializeBegin(t) /\ UNCHANGED <<buildVars, hashVars>>
    \/ SerializeElement /\ UNCHANGED <<buildVars, hashVars>>
    \/ DeserializeWire /\ UNCHANGED <<buildVars, hashVars>>
    \/ \E elems \in WireInputs : DeserializeBegin(elems) /\ UNCHANGED <<buildVars, hashVars>>
    \/ VisitNext /\ UNCHANGED <<buildVars, hashVars>>
    \/ \E strict_end \in BOOLEAN : VisitReturn(strict_end) /\ UNCHANGED <<buildVars, hashVars>>
SpecSerde == InitSerde /\ [][NextSerde]_vars

(***************************************************************************)
(* NoiseHasher::hash                                                       *)
(***************************************************************************)
\* .map(|&a| (a & 0xff) as usize)
MapCoord(a) == BitAnd(a, 255)

\* Mutant: the XOR is applied to the index, not to the value looked up.
ReduceStepXorIndex(v, a, b) == v[BitXor(a, b)]

\* Mutant: `&` typed for `^`.
ReduceStepAnd(v, a, b) == BitAnd(v[a], b)

\* .reduce(|a, b| self.values[a] as usize ^ b)
ReduceStep(v, a, b) == BitXor(v[a], b)

Returned(x) == [tag |-> "return", value |-> x]
Panicked == [tag |-> "panic", value |-> -1]
NotReturned == [tag |-> "none", value |-> -1]

\* Mutant: unwrap_or(0) in place of unwrap.
UnwrapOrZeroAndIndex(v, index) ==
    IF index = None THEN Returned(v[0]) ELSE Returned(v[index[1]])

\* Option::unwrap, then the lookup `self.values[index] as usize`.
UnwrapAndIndex(v, index) ==
    IF index = None THEN Panicked ELSE Returned(v[index[1]])

\* Iterator::reduce over the mapped coordinates from position k on, with the
\* accumulator a (None before the first element).
RECURSIVE Reduce(_, _, _, _)
Reduce(v, coords, k, a) ==
    IF k > Len(coords) THEN a
    ELSE Reduce(v, coords, k + 1,
                IF a = None THEN Some(MapCoord(coords[k]))
                ELSE Some(ReduceStep(v, a[1], MapCoord(coords[k]))))

\* The whole of hash(&self, to_hash) run on its own.
hash(v, coords) == UnwrapAndIndex(v, Reduce(v, coords, 1, None))

\* A thread calls hash(&shared, coords).
HashCall(t, coords) ==
    /\ hpc[t] = "idle"
    /\ to_hash' = [to_hash EXCEPT ![t] = coords]
    /\ pos' = [pos EXCEPT ![t] = 0]
    /\ acc' = [acc EXCEPT ![t] = None]
    /\ hpc' = [hpc EXCEPT ![t] = "reduce"]
    /\ UNCHANGED <<shared, hresult>>

\* Mutant: the accumulator is one scratch cell shared by all callers.
HashNextSharedAcc(t) ==
    /\ hpc[t] = "reduce"
    /\ pos[t] < Len(to_hash[t])
    /\ acc' = [u \in DOMAIN acc |->
                 IF pos[t] = 0
                 THEN Some(MapCoord(to_hash[t][1]))
                 ELSE Some(ReduceStep(shared[1], acc[t][1], MapCoord(to_hash[t][pos[t] + 1])))]
    /\ pos' = [pos EXCEPT ![t] = pos[t] + 1]
    /\ UNCHANGED <<shared, to_hash, hpc, hresult>>

\* reduce pulls the next coordinate through map: the first becomes the
\* accumulator, a later one is folded in with one read of the table.
HashNext(t) ==
    /\ hpc[t] = "reduce"
    /\ pos[t] < Len(to_hash[t])
    /\ acc' = [acc EXCEPT ![t] =
                 IF acc[t] = None
                 THEN Some(MapCoord(to_hash[t][pos[t] + 1]))
                 ELSE Some(ReduceStep(shared[1], acc[t][1], MapCoord(to_hash[t][pos[t] + 1])))]
    /\ pos' = [pos EXCEPT ![t] = pos[t] + 1]
    /\ UNCHANGED <<shared, to_hash, hpc, hresult>>

\* The iterator is exhausted: unwrap, the final lookup, return.
HashReturn(t) ==
    /\ hpc[t] = "reduce"
    /\ pos[t] = Len(to_hash[t])
    /\ hresult' = [hresult EXCEPT ![t] = UnwrapAndIndex(shared[1], acc[t])]
    /\ hpc' = [hpc EXCEPT ![t] = "done"]
    /\ UNCHANGED <<shared, to_hash, pos, acc>>

\* ---- inputs ----
MaxDim == 3
NumThreads == 2
MaxConcDim == 2
MaxVariants == 2

\* Element k (from 0) of a 256-long table that is not a permutation.
NonPermutation == [k \in 0..(TABLE_SIZE - 1) |-> PatternElem(2, k)]

SeedTables == {new(s) : s \in Seeds}
HashTables == SeedTables \cup {NonPermutation}

\* Coordinates on both sides of 0 and one whose bits above the low byte are set.
CoordVals == {-256, -1, 0, 1}
CoordSeqs == UNION {[1..n -> CoordVals] : n \in 0..MaxDim}

HashInit(tables, threads) ==
    /\ shared \in {Some(t) : t \in tables}
    /\ to_hash = [t \in threads |-> <<>>]
    /\ hpc = [t \in threads |-> "idle"]
    /\ pos = [t \in threads |-> 0]
    /\ acc = [t \in threads |-> None]
    /\ hresult = [t \in threads |-> NotReturned]

\* One caller.
InitHash == BuildIdle /\ SerdeIdle /\ HashInit(HashTables, {1})
NextHash ==
    \/ \E coords \in CoordSeqs : HashCall(1, coords) /\ UNCHANGED <<buildVars, serdeVars>>
    \/ HashNext(1) /\ UNCHANGED <<buildVars, serdeVars>>
    \/ HashReturn(1) /\ UNCHANGED <<buildVars, serdeVars>>
SpecHash == InitHash /\ [][NextHash]_vars

\* Several threads sharing one table, each with coordinate sequences of its own.
Threads == 1..NumThreads
ThreadCoords(t, variant) ==
    [k \in 1..(2 + ((t + variant) % MaxConcDim)) |-> ((37 * t) + (101 * variant * k)) - 300]
InitConc == BuildIdle /\ SerdeIdle /\ HashInit(SeedTables, Threads)
NextConc ==
    \/ \E t \in Threads, variant \in 1..MaxVariants :
          HashCall(t, ThreadCoords(t, variant)) /\ UNCHANGED <<buildVars, serdeVars>>
    \/ \E t \in Threads : HashNext(t) /\ UNCHANGED <<buildVars, serdeVars>>
    \/ \E t \in Threads : HashReturn(t) /\ UNCHANGED <<buildVars, serdeVars>>
SpecConc == InitConc /\ [][NextConc]_vars

(***************************************************************************)
(* Properties                                                              *)
(***************************************************************************)
\* v holds each of 0..255 exactly once: its 256 entries cover all 256 values,
\* so none is missing and none can appear twice.
IsPermutation(v) ==
    /\ DOMAIN v = 0..(TABLE_SIZE - 1)
    /\ {v[k] : k \in DOMAIN v} = 0..(TABLE_SIZE - 1)

\* C1: while new(seed) or sample(rng) shuffles, and when it returns, the
\* table's 256 values hold each of 0..255 exactly once: the identity fill is
\* a permutation and every swap of the shuffle keeps it one.
C1_PermutationInvariant ==
    pc \in {"shuffle", "done"} => IsPermutation(values)

\* A table returned by new(seed) and one returned by sample(rng), each moved
\* away from the identity by the shuffle.
C1_Witness ==
    /\ pc = "done"
    /\ values # Identity
    /\ seed = None
    /\ first # None

\* The four bytes of a u32, least significant first.
LEBytes(s) == <<s.lo % 256, s.lo \div 256, s.hi % 256, s.hi \div 256>>

\* C7: a call new(s) works from the buffer [1,0,0,0] ++ LE(s) ++ LE(s) ++ LE(s)
\* and a second, independent call new(s) returns the same 256 values as the
\* first: nothing but s decides the table.
C7_Deterministic ==
    /\ seed # None =>
         real = <<1, 0, 0, 0>> \o LEBytes(seed[1]) \o LEBytes(seed[1]) \o LEBytes(seed[1])
    /\ (pc = "done" /\ seed # None /\ first # None /\ first[1].seed = seed[1]) =>
         /\ real = first[1].real
         /\ values = first[1].values

\* A second call new(s), begun after the first new(s) had returned and been
\* recorded, has itself returned, with the first call's shuffled table.
C7_Witness ==
    /\ pc = "done"
    /\ again
    /\ seed # None
    /\ first # None
    /\ first[1].seed = seed[1]
    /\ seed[1] = U32(258, 772)
    /\ values = first[1].values
    /\ values # Identity

\* The number a sequence of decimal digits denotes.
RECURSIVE DigitsValue(_)
DigitsValue(d) ==
    IF d = <<>> THEN 0
    ELSE (10 * DigitsValue(SubSeq(d, 1, Len(d) - 1))) + d[Len(d)]

\* e is the visitor's count error naming `expected` required and `found`
\* present elements.
IsCountError(e, expected, found) ==
    /\ e.origin = "visitor"
    /\ Len(e.args) = 2
    /\ DigitsValue(e.args[1]) = expected
    /\ DigitsValue(e.args[2]) = found

\* The result r is Ok and carries exactly the elements of the sequence w,
\* position by position.
IsOkWith(r, w) ==
    /\ r.tag = "Ok"
    /\ r.values # None
    /\ DOMAIN r.values[1] = 0..(TABLE_SIZE - 1)
    /\ Len(w) = TABLE_SIZE
    /\ \A k \in 0..(TABLE_SIZE - 1) : r.values[1][k] = w[k + 1]

\* C2 (as claimed): deserializing a sequence whose length is not 256, longer
\* ones included, ends in the error naming 256 and the actual count, and
\* returns no table.
C2_RejectsEveryOtherLength ==
    (spc = "done" /\ Len(input) # TABLE_SIZE) =>
        /\ de_result[1].tag = "Err"
        /\ de_result[1].values = None
        /\ IsCountError(de_result[1].error[1], TABLE_SIZE, Len(input))

\* C3: deserializing a sequence of n < 256 elements returns an error and no
\* table, and the error names 256 and n.
C3_TooShortRejected ==
    (spc = "done" /\ Len(input) < TABLE_SIZE) =>
        /\ de_result[1].tag = "Err"
        /\ de_result[1].values = None
        /\ IsCountError(de_result[1].error[1], TABLE_SIZE, Len(input))

\* A 255-element sequence was read to its end and refused.
C3_Witness ==
    /\ spc = "done"
    /\ Len(input) = TABLE_SIZE - 1
    /\ seq = <<>>
    /\ de_i = TABLE_SIZE - 1
    /\ de_result[1].tag = "Err"

\* C5: serialize announces 256 elements and emits exactly the table's 256
\* values in index order, and deserializing them succeeds with a table equal
\* to the original position by position.
C5_RoundTrip ==
    /\ (table # None /\ spc = "ser") =>
          /\ len_hint = Some(TABLE_SIZE)
          /\ Len(seq) = ser_i
          /\ \A k \in 0..(ser_i - 1) : seq[k + 1] = table[1][k]
    /\ (table # None /\ spc = "wire") =>
          /\ Len(seq) = TABLE_SIZE
          /\ \A k \in 0..(TABLE_SIZE - 1) : seq[k + 1] = table[1][k]
    /\ (table # None /\ spc = "done") =>
          /\ IsOkWith(de_result[1], input)
          /\ de_result[1].values[1] = table[1]

\* A shuffled table went through serialize and deserialize.
C5_Witness ==
    /\ spc = "done"
    /\ table # None
    /\ table[1] # Identity
    /\ IsPermutation(table[1])
    /\ de_result[1].tag = "Ok"

\* The sequence w repeats a value (so, being 256 long, it also misses one).
HasDuplicate(w) == \E a, b \in 1..Len(w) : a # b /\ w[a] = w[b]

\* C8: a sequence of exactly 256 byte values that is not a permutation
\* deserializes successfully, and the table holds the 256 values unchanged
\* and in order.
C8_NonPermutationAccepted ==
    (spc = "done" /\ Len(input) = TABLE_SIZE /\ HasDuplicate(input)) =>
        IsOkWith(de_result[1], input)

\* A 256-element sequence with repeated values was deserialized.
C8_Witness ==
    /\ spc = "done"
    /\ Len(input) = TABLE_SIZE
    /\ HasDuplicate(input)
    /\ de_result[1].tag = "Ok"
    /\ ~IsPermutation(de_result[1].values[1])

\* The reference fold of the specification, written without the code's
\* operators: the low byte by arithmetic, XOR bit by bit over 8 bits.
RefLowByte(c) == c % 256
RefBit(x, k) == (x \div Pow2(k)) % 2
RECURSIVE RefXorFrom(_, _, _)
RefXorFrom(x, y, k) ==
    IF k > 7 THEN 0
    ELSE ((IF RefBit(x, k) # RefBit(y, k) THEN 1 ELSE 0) * Pow2(k)) + RefXorFrom(x, y, k + 1)
RefXor(x, y) == RefXorFrom(x, y, 0)
\* acc after the raw values 1..k of coords have been folded in.
RECURSIVE RefAcc(_, _, _)
RefAcc(v, coords, k) ==
    IF k = 1 THEN RefLowByte(coords[1])
    ELSE RefXor(v[RefAcc(v, coords, k - 1)], RefLowByte(coords[k]))
RefHash(v, coords) == v[RefAcc(v, coords, Len(coords))]

\* C4: for every table and every non-empty coordinate sequence, hash returns
\* the reference fold's value, and with a single coordinate c it returns
\* values[c & 0xFF].
C4_HashIsReferenceFold ==
    (hpc[1] = "done" /\ Len(to_hash[1]) >= 1) =>
        /\ hresult[1] = Returned(RefHash(shared[1], to_hash[1]))
        /\ Len(to_hash[1]) = 1 =>
              hresult[1] = Returned(shared[1][RefLowByte(to_hash[1][1])])

\* hash has returned for a sequence of several coordinates, a negative one
\* among them.
C4_Witness ==
    /\ hpc[1] = "done"
    /\ Len(to_hash[1]) >= 2
    /\ to_hash[1][1] < 0
    /\ hresult[1].tag = "return"

\* C6: hash called with no coordinates returns no index: it panics.
C6_EmptyPanics ==
    (hpc[1] = "done" /\ to_hash[1] = <<>>) =>
        /\ hresult[1] = Panicked
        /\ hresult[1].tag # "return"

\* hash was called with an empty coordinate sequence and has ended.
C6_Witness ==
    /\ hpc[1] = "done"
    /\ to_hash[1] = <<>>
    /\ pos[1] = 0
    /\ acc[1] = None

\* C10: on a permutation table, with the other coordinates fixed, hash as a
\* function of the low byte of any one coordinate takes every value of
\* 0..255 (256 inputs onto 256 values: a bijection), and the coordinate
\* enters through its low byte alone.
C10_BijectivePerAxis ==
    (hpc[1] = "done" /\ IsPermutation(shared[1]) /\ Len(to_hash[1]) >= 1) =>
        \A k \in 1..Len(to_hash[1]) :
            /\ {hash(shared[1], [to_hash[1] EXCEPT ![k] = b]).value : b \in 0..255} = 0..255
            /\ hash(shared[1], [to_hash[1] EXCEPT ![k] = RefLowByte(to_hash[1][k])])
                  = hresult[1]

\* hash has returned on a shuffled permutation table for two coordinates.
C10_Witness ==
    /\ hpc[1] = "done"
    /\ IsPermutation(shared[1])
    /\ shared[1] # Identity
    /\ Len(to_hash[1]) = 2
    /\ hresult[1].tag = "return"

\* C9 (results): a call that has returned while other threads were calling
\* hash on the same table returned what the call returns run on its own.
C9_ResultsAsAlone ==
    \A t \in DOMAIN hpc :
        hpc[t] = "done" => hresult[t] = hash(shared[1], to_hash[t])

\* C9: under every interleaving of the threads' steps each call returns the
\* value it returns when run alone, and no step changes the shared table.
C9_ConcurrentReads ==
    /\ []C9_ResultsAsAlone
    /\ [][shared' = shared]_vars

\* Thread 2's call has returned while thread 1 is in the middle of its fold.
C9_Witness ==
    /\ hpc[2] = "done"
    /\ hresult[2].tag = "return"
    /\ hpc[1] = "reduce"
    /\ pos[1] >= 1
    /\ pos[1] < Len(to_hash[1])
    /\ to_hash[1] # to_hash[2]

====
